---------------------------- MODULE Spec2Model ----------------------------
(* Communicators of tvb_multiscale/core/interfaces/base/io.py:             *)
(* SetToTransformer / GetFromTransformer (memory transport) and            *)
(* NPZWriter / NPZReader (file transport), with the numpy arrays they move *)
(* kept in a heap of array objects so that copying and aliasing differ.    *)
(* Output devices of tvb_multiscale/tvb_annarchy/annarchy_models/devices.py *)
(* over the backend's monitors, and the run of the example script           *)
(* tvb_nest/examples/red_ww_exc_io_inh_i.py: build the interface, configure *)
(* the simulator, run the co-simulation.                                    *)
(* Further: the basal-ganglia interface builders for NEST, the ANNarchy     *)
(* devices' registries, Set, Get and connections, random_uniform_delay of   *)
(* the NEST templates, and the batching, training and loading functions of  *)
(* the SBI script. Each of these is a specification of its own over its own *)
(* variables; the variables of the others stay at their idle values.        *)
EXTENDS Integers, Sequences, FiniteSets, TLC

VARIABLES
    transport,  \* "memory" | "file": which Sender/Receiver pair is configured
    heap,       \* array object -> its elements (numpy arrays are mutable objects)
    data,       \* the caller's argument of the last send: <<>> (None) or <<time, values>>
    tr,         \* the Transformer: input_time, input_buffer, output_time, output_buffer
    got,        \* the list the caller holds from the last successful receive, <<>> before
    ret,        \* what the last operation returned: "None" | "list"
    last,       \* entry point of the last operation
    err,        \* "none" or the exception the last operation raised
    target,     \* NPZWriter.target (a path)
    source,     \* NPZReader.source (a path)
    fs,         \* the file system: path -> file
    wpc,        \* position of the writer inside np.savez
    written,    \* whether a send has completed on the target file (its archive was closed)
    kind,       \* the device's class: "multimeter" | "spike_detector" | "spike_multimeter",
                \* or the name of a registered class
    monitors,   \* the backend's monitors of the device, in order: what each has recorded
    devdata,    \* the device's _data
    result,     \* what the last read of the device returned
    reads,      \* accesses of the device since the backend last recorded (up to MaxReads)
    pc,         \* position of the example script
    cfg,        \* the interface builder's configuration: population labels per direction
    registry,   \* population labels of the spiking network
    endpoints,  \* the endpoints of the built interface, in order
    phase,      \* "AWAITING_TVB_STEP" | "AWAITING_SPIKING_STEP"
    tick,       \* simulation ticks completed
    running,    \* the simulators that are inside a step
    stepped,    \* the simulators stepped so far, in order of their steps' starts
    half,       \* "step" | "exchange": what the current phase is waiting for
    xchg,       \* how far each endpoint's exchange has come in the current tick
    attrs,      \* the attributes the backend holds for a device: per monitor, or of an input population
    wiring,     \* an interface builder: its class and its output and input configuration
    delay,      \* a call of random_uniform_delay: its arguments and its outcome
    sbi,        \* the simulation batches of sbi_script.py: prior samples, result files, training pairs
    training,   \* a call of sbi_train: its loop counter, attempts, warnings and outcome
    posteriors  \* a load of posterior samples: the files, the loop position and the samples loaded

iovars == <<transport, heap, data, tr, got, ret, target, source, fs, wpc, written>>
devvars == <<kind, monitors, devdata, result, reads>>
simvars == <<pc, cfg, registry, endpoints, phase, tick, running, stepped, half, xchg>>
auxvars == <<attrs, wiring, delay, sbi, training, posteriors>>

vars == <<transport, heap, data, tr, got, ret, last, err, target, source, fs, wpc, written,
          kind, monitors, devdata, result, reads,
          pc, cfg, registry, endpoints, phase, tick, running, stepped, half, xchg,
          attrs, wiring, delay, sbi, training, posteriors>>

-----------------------------------------------------------------------------
(* Bounds *)

\* Array elements are 0..MaxVal.
MaxVal == 1

\* Arrays are empty or hold one element: two lengths are what a shape
\* mismatch, an overwrite versus an append, and an in-place write need.
Lens == {0, 1}

Vals == 0..MaxVal

Arrays == UNION {[1..n -> Vals] : n \in Lens}

-----------------------------------------------------------------------------
(* The heap of array objects *)

Refs == {"d_t", "d_v", "in_t", "in_v", "out_t", "out_v", "g_t", "g_v"}

Range(s) == {s[i] : i \in DOMAIN s}

TrRefs(t) == {t.input_time, t.input_buffer, t.output_time, t.output_buffer}

\* A new array object for holder `home`, distinct from every object in `keep`.
Alloc(home, keep) ==
    IF home \notin keep THEN home ELSE CHOOSE r \in Refs \ keep : TRUE

\* The heap once `assign` (object -> elements) is stored and only `live` objects remain.
NewHeap(assign, live) ==
    assign @@ [r \in live |-> heap[r]] @@ [r \in Refs |-> <<>>]

\* The elements of a (time, values) list of arrays.
Content(h, lst) == [i \in DOMAIN lst |-> h[lst[i]]]


-----------------------------------------------------------------------------
(* Inputs *)

None == <<>>

\* What a caller may pass to send: None, or a (time, values) pair of new arrays
\* of any two shapes (equal lengths or not).
DataIn == {None} \cup (Arrays \X Arrays)

SendOps == {"Sender.send", "Sender.__call__"}
RecvOps == {"Receiver.receive", "Receiver.__call__"}

\* The array objects the caller holds: the data it sent and the list it received.
CallerRefs == Range(data) \cup Range(got)

-----------------------------------------------------------------------------
(* SetToTransformer.send *)

\* A send without the copy: the target's field is bound to the caller's array.
SendStoreAliased(r, home, keep) == r

\* np.copy(data[i]): the object the target's field is bound to is a new one.
SendStore(r, home, keep) == Alloc(home, keep)

\* A send that extends the buffer instead of replacing it.
SendElementsAppended(old, new) == old \o new

\* target.input_time = ..., target.input_buffer = ...: an assignment, the
\* field's old elements are gone.
SendElements(old, new) == new

SetToTransformerSend(d) ==
    IF d = None
    THEN \* data[0] on None raises before anything is assigned
         /\ err' = "TypeError"
         /\ ret' = "None"
         /\ data' = None
         /\ heap' = NewHeap(<<>>, TrRefs(tr) \cup Range(got))
         /\ UNCHANGED <<tr, got>>
    ELSE \E dt \in {Alloc("d_t", TrRefs(tr) \cup Range(got))} :
         \E dv \in {Alloc("d_v", TrRefs(tr) \cup Range(got) \cup {dt})} :
         \E keepI \in {{tr.output_time, tr.output_buffer, dt, dv} \cup Range(got)} :
         \E it \in {SendStore(dt, "in_t", keepI)} :
         \E iv \in {SendStore(dv, "in_v", keepI \cup {it})} :
             /\ err' = "none"
             /\ ret' = "None"
             /\ data' = <<dt, dv>>
             /\ tr' = [tr EXCEPT !.input_time = it, !.input_buffer = iv]
             /\ heap' = NewHeap((it :> SendElements(heap[tr.input_time], d[1]))
                                @@ (iv :> SendElements(heap[tr.input_buffer], d[2]))
                                @@ (dt :> d[1]) @@ (dv :> d[2]),
                                keepI \cup {it, iv})
             /\ UNCHANGED got

-----------------------------------------------------------------------------
(* GetFromTransformer.receive *)

\* np.copy(source.output_time): the returned array is a new object.
ReceiveReturn(r, home, keep) == Alloc(home, keep)

\* A receive that reads back the buffers send wrote.
ReceiveFieldsOfInput(t) == <<t.input_time, t.input_buffer>>

\* The fields of the source that receive reads.
ReceiveFields(t) == <<t.output_time, t.output_buffer>>

GetFromTransformerReceive ==
    \E src \in {ReceiveFields(tr)} :
    \E gt \in {ReceiveReturn(src[1], "g_t", TrRefs(tr) \cup Range(data))} :
    \E gv \in {ReceiveReturn(src[2], "g_v", TrRefs(tr) \cup Range(data) \cup {gt})} :
        /\ err' = "none"
        /\ ret' = "list"
        /\ got' = <<gt, gv>>
        /\ heap' = NewHeap((gt :> heap[src[1]]) @@ (gv :> heap[src[2]]),
                           TrRefs(tr) \cup Range(data) \cup {gt, gv})
        /\ UNCHANGED <<data, tr>>

-----------------------------------------------------------------------------
(* Files *)

\* A path is the sequence of its parts, the extension last.
UserPaths == {<<"buf">>, <<"buf", ".npz">>}

EndsWithNpz(path) == Len(path) > 0 /\ path[Len(path)] = ".npz"

\* np.savez(file, ...): ".npz" is appended to a file name that does not end with it.
SavezName(path) == IF EndsWithNpz(path) THEN path ELSE Append(path, ".npz")

FilePaths == UserPaths \cup {SavezName(p) : p \in UserPaths}

\* np.savez stores its members uncompressed (np.savez_compressed deflates them).
SavezCompressed == FALSE

\* A writer whose keyword for the values differs from the name the reader asks for.
SavezArgsRenamed(d) == << [name |-> "time", arr |-> d[1]], [name |-> "data", arr |-> d[2]] >>

\* np.savez(target, time=data[0], values=data[1]): one member per keyword.
SavezArgs(d) == << [name |-> "time", arr |-> d[1]], [name |-> "values", arr |-> d[2]] >>

NoFile == [st |-> "missing", compressed |-> FALSE, members |-> <<>>]

Names(f) == [i \in DOMAIN f.members |-> f.members[i].name]

Member(f, k) == (CHOOSE m \in Range(f.members) : m.name = k).arr

Complete(f) == f.st = "closed"

\* NPZWriter.send up to the point where np.savez has opened the archive for
\* writing: an existing file at that path is truncated.
NPZWriterSend(d) ==
    IF d = None
    THEN \* data[0] on None raises before np.savez is called
         /\ err' = "TypeError"
         /\ ret' = "None"
         /\ data' = None
         /\ heap' = NewHeap(<<>>, TrRefs(tr) \cup Range(got))
         /\ UNCHANGED <<fs, wpc, got, written>>
    ELSE \E dt \in {Alloc("d_t", TrRefs(tr) \cup Range(got))} :
         \E dv \in {Alloc("d_v", TrRefs(tr) \cup Range(got) \cup {dt})} :
             /\ err' = "none"
             /\ ret' = "None"
             /\ data' = <<dt, dv>>
             /\ heap' = NewHeap((dt :> d[1]) @@ (dv :> d[2]),
                                TrRefs(tr) \cup Range(got) \cup {dt, dv})
             /\ fs' = [fs EXCEPT ![SavezName(target)] =
                          [st |-> "open", compressed |-> SavezCompressed, members |-> <<>>]]
             /\ wpc' = 1
             /\ UNCHANGED <<got, written>>

\* np.savez writes the next member into the open archive.
SavezWrite ==
    /\ transport = "file"
    /\ wpc > 0
    /\ wpc <= Len(SavezArgs(Content(heap, data)))
    /\ fs' = [fs EXCEPT ![SavezName(target)].members =
                 Append(@, SavezArgs(Content(heap, data))[wpc])]
    /\ wpc' = wpc + 1
    /\ last' = "np.savez"
    /\ err' = "none"
    /\ UNCHANGED <<transport, heap, data, tr, got, ret, target, source, written>>
    /\ UNCHANGED <<devvars, simvars, auxvars>>

\* np.savez closes the archive (the central directory is written): send returns.
SavezClose ==
    /\ transport = "file"
    /\ wpc > 0
    /\ wpc = Len(SavezArgs(Content(heap, data))) + 1
    /\ fs' = [fs EXCEPT ![SavezName(target)].st = "closed"]
    /\ wpc' = 0
    /\ written' = TRUE
    /\ last' = "np.savez"
    /\ err' = "none"
    /\ UNCHANGED <<transport, heap, data, tr, got, ret, target, source>>
    /\ UNCHANGED <<devvars, simvars, auxvars>>

\* A write fails part-way (the disk is full, the device fails): np.savez raises
\* and send raises with it; the archive stays as far as it was written.
SavezFail ==
    /\ transport = "file"
    /\ wpc > 0
    /\ wpc' = 0
    /\ last' = "np.savez"
    /\ err' = "OSError"
    /\ UNCHANGED <<transport, heap, data, tr, got, ret, target, source, fs, written>>
    /\ UNCHANGED <<devvars, simvars, auxvars>>

\* The names NPZReader.receive reads from the archive, in the order of the result.
ReaderKeys == <<"time", "values">>

\* What np.load and the reads of the members raise on a file that is not a
\* complete archive; which one depends on how far the file was written and on
\* the numpy version.
CorruptErrors(f) ==
    IF f.members = <<>> THEN {"EOFError", "IOError"} ELSE {"BadZipFile"}

\* The errors of Python's IOError (OSError) family.
IsIOError(e) == e \in {"IOError", "OSError", "FileNotFoundError"}

\* A receive that catches what the load raises and returns an empty list.
ReceiveSwallows(raised) ==
    /\ err' = "none"
    /\ ret' = "list"
    /\ got' = <<>>
    /\ heap' = NewHeap(<<>>, TrRefs(tr) \cup Range(data))

\* receive has no handler: what np.load or a member read raises reaches the
\* caller, and nothing is returned.
ReceiveRaises(raised) ==
    /\ \E e \in raised : err' = e
    /\ ret' = "None"
    /\ UNCHANGED <<heap, got>>

NPZReaderReceive ==
    \* np.load, then datafile["time"] and datafile["values"]
    \E f \in {fs[source]} :
    \E raised \in {IF f.st = "missing" THEN {"FileNotFoundError"}
                   ELSE IF f.st = "open" THEN CorruptErrors(f)
                   ELSE IF \E k \in Range(ReaderKeys) : k \notin Range(Names(f))
                        THEN {"KeyError"}
                   ELSE {}} :
        /\ IF raised # {}
           THEN ReceiveRaises(raised)
           ELSE \E gt \in {Alloc("g_t", TrRefs(tr) \cup Range(data))} :
                \E gv \in {Alloc("g_v", TrRefs(tr) \cup Range(data) \cup {gt})} :
                    /\ err' = "none"
                    /\ ret' = "list"
                    /\ got' = <<gt, gv>>
                    /\ heap' = NewHeap((gt :> Member(f, ReaderKeys[1]))
                                       @@ (gv :> Member(f, ReaderKeys[2])),
                                       TrRefs(tr) \cup Range(data) \cup {gt, gv})
        /\ UNCHANGED <<data, tr, fs, wpc, written>>

-----------------------------------------------------------------------------
(* Sender and Receiver: the named method and the invocation operator *)

\* sender.send(data): the send of the sender's class.
SenderSend(d) ==
    IF transport = "memory"
    THEN SetToTransformerSend(d) /\ UNCHANGED <<fs, wpc, written>>
    ELSE NPZWriterSend(d) /\ UNCHANGED tr

\* Sender.__call__(data): self.send(data), nothing is returned.
SenderCall(d) == SenderSend(d)

\* receiver.receive(): the receive of the receiver's class.
ReceiverReceive ==
    IF transport = "memory"
    THEN GetFromTransformerReceive /\ UNCHANGED <<fs, wpc, written>>
    ELSE NPZReaderReceive

\* An invocation operator that runs receive and drops its result.
ReceiverCallNoReturn ==
    /\ err' = "none"
    /\ ret' = "None"
    /\ UNCHANGED <<heap, data, tr, got, fs, wpc, written>>

\* Receiver.__call__(): return self.receive().
ReceiverCall == ReceiverReceive

-----------------------------------------------------------------------------
(* The Transformer between its input and its output buffers, and the code     *)
(* around the Communicators writing into arrays it holds                      *)

\* Weights of the linear rescaling transform.
Weights == {0, 1}

Scale(w, a) == [i \in DOMAIN a |-> w * a[i]]

\* transform(): reads input_time / input_buffer, writes output_time / output_buffer.
Transform(w) ==
    /\ transport = "memory"
    /\ \E ot \in {Alloc("out_t", {tr.input_time, tr.input_buffer} \cup CallerRefs)} :
       \E ob \in {Alloc("out_v", {tr.input_time, tr.input_buffer, ot} \cup CallerRefs)} :
           /\ tr' = [tr EXCEPT !.output_time = ot, !.output_buffer = ob]
           /\ heap' = NewHeap((ot :> heap[tr.input_time])
                              @@ (ob :> Scale(w, heap[tr.input_buffer])),
                              {tr.input_time, tr.input_buffer, ot, ob} \cup CallerRefs)
    /\ last' = "transform"
    /\ err' = "none"
    /\ ret' = "None"
    /\ UNCHANGED <<transport, data, got, target, source, fs, wpc, written>>
    /\ UNCHANGED <<devvars, simvars, auxvars>>

\* a[i] = x on array object r.
WriteElement(r, i, x) ==
    /\ heap[r][i] # x
    /\ heap' = [heap EXCEPT ![r][i] = x]

\* The caller writes into an array it passed to send or got from receive.
MutateCaller ==
    /\ transport = "memory"
    /\ \E r \in CallerRefs : \E i \in DOMAIN heap[r] : \E x \in Vals : WriteElement(r, i, x)
    /\ last' = "mutate_caller"
    /\ err' = "none"
    /\ ret' = "None"
    /\ UNCHANGED <<transport, data, tr, got, target, source, fs, wpc, written>>
    /\ UNCHANGED <<devvars, simvars, auxvars>>

\* The Transformer's side writes into one of its buffers in place.
MutateTransformer ==
    /\ transport = "memory"
    /\ \E r \in TrRefs(tr) : \E i \in DOMAIN heap[r] : \E x \in Vals : WriteElement(r, i, x)
    /\ last' = "mutate_transformer"
    /\ err' = "none"
    /\ ret' = "None"
    /\ UNCHANGED <<transport, data, tr, got, target, source, fs, wpc, written>>
    /\ UNCHANGED <<devvars, simvars, auxvars>>

-----------------------------------------------------------------------------
(* ANNarchy output devices (devices.py): the data of a device and of the     *)
(* backend's monitors it reads                                                *)

\* ANNarchyOutputDeviceDict: the classes with a method of their own (monitor
\* and voltmeter are multimeters without one).
DeviceKinds == {"multimeter", "spike_detector", "spike_multimeter"}

\* A device is built over at most MaxMonitors monitors, each holding at most
\* MaxRecorded samples.
MaxMonitors == 2
MaxRecorded == 2

\* Accesses of the device are counted up to MaxReads.
MaxReads == 2

\* What a monitor can hold: the samples recorded since it was last emptied.
Recordings == UNION {[1..n -> Vals] : n \in 0..MaxRecorded}

\* DataArray(np.empty((0, 0, 0, 0)), dims=["Time", "Variable", "Population", "Neuron"])
DataArrayDims == <<"Time", "Variable", "Population", "Neuron">>
EmptyDataArray == [type |-> "DataArray", cells |-> <<>>]

\* Values a read hands to its caller: nothing (it raised), the events mapping,
\* a count, the attributes dictionary or the connections list.
NoResult == [tag |-> "none", times |-> <<>>, senders |-> <<>>, values |-> <<>>, n |-> 0]
EventsMapping(t, s, v) == [tag |-> "events", times |-> t, senders |-> s, values |-> v, n |-> 0]
Count(k) == [tag |-> "count", times |-> <<>>, senders |-> <<>>, values |-> <<>>, n |-> k]
Collection(tg, k) == [tag |-> tg, times |-> <<>>, senders |-> <<>>, values |-> <<>>, n |-> k]

\* Outcome of a method body: the exception it raised ("none": it returned) and
\* the monitors and the _data it leaves.
Outcome(e, ms, d) == [err |-> e, monitors |-> ms, data |-> d]

\* Monitor.get() with keep left at its default False: the recorded samples are
\* handed out and the monitor's memory is emptied.
MonitorGet(ms, m) == [ms EXCEPT ![m] = <<>>]

\* np.array(data.values()): numpy takes a dict view for one object, not for a
\* sequence, and makes a 0-dimensional object array of it.
ValuesArrayNdim == 0

\* DataArray(array, dims=[...]) takes an array of as many dimensions as dims names.
DataArrayAccepts(ndim) == ndim = Len(DataArrayDims)

\* combine_by_coords([self._data, data]): the cells of both, the new after the old.
CombineByCoords(d, m, rec) ==
    [d EXCEPT !.cells = @ \o [i \in DOMAIN rec |-> [monitor |-> m, value |-> rec[i]]]]

\* ANNarchyOutputDevice._record, lines 407-417: the body of the loop for the
\* first monitor, which is where it ends when there is one: get() has emptied
\* the monitor when the DataArray of line 411 is refused.
RECURSIVE OutputDeviceRecordFrom(_, _, _)
OutputDeviceRecordFrom(m, ms, d) ==
    IF m > Len(ms)
    THEN Outcome("none", ms, d)
    ELSE IF DataArrayAccepts(ValuesArrayNdim)
         THEN OutputDeviceRecordFrom(m + 1, MonitorGet(ms, m), CombineByCoords(d, m, ms[m]))
         ELSE Outcome("ValueError", MonitorGet(ms, m), d)

OutputDeviceRecord(ms, d) == OutputDeviceRecordFrom(1, ms, d)

\* len(self._data) of a DataArray is the size of its first dimension, and a
\* DataArray has no append: only a list has.
PyLen(d) == Len(d.cells)
HasAppend(d) == d.type = "list"

\* ANNarchySpikeDetector._record, lines 486-491. _data is the DataArray that
\* ANNarchyOutputDevice.__init__ (line 261, called at line 480) and reset
\* (line 445) assign, never the class's list of line 477.
RECURSIVE SpikeDetectorRecordFrom(_, _, _)
SpikeDetectorRecordFrom(m, ms, d) ==
    IF m > Len(ms)
    THEN Outcome("none", ms, d)
    ELSE IF PyLen(d) <= m - 1 /\ ~HasAppend(d)
         THEN Outcome("AttributeError", ms, d)
         ELSE LET d1 == IF PyLen(d) <= m - 1 THEN [d EXCEPT !.cells = Append(@, <<>>)] ELSE d
              IN  IF ms[m] # <<>>
                  \* for neuron, spikes_times in <dict>: its keys are ints
                  THEN Outcome("TypeError", MonitorGet(ms, m), d1)
                  ELSE SpikeDetectorRecordFrom(m + 1, MonitorGet(ms, m), d1)

SpikeDetectorRecord(ms, d) == SpikeDetectorRecordFrom(1, ms, d)

\* self._record() by the method resolution order: ANNarchySpikeMultimeter
\* (ANNarchyMultimeter, ANNarchySpikeDetector, ...) finds the spike detector's.
Record(k, ms, d) ==
    IF k = "multimeter" THEN OutputDeviceRecord(ms, d) ELSE SpikeDetectorRecord(ms, d)

\* The rest of events after _record returned: one entry per cell of the stacked
\* _data (lines 422-431, 496-504, 521-533).
EventsOf(k, d) ==
    EventsMapping([i \in DOMAIN d.cells |-> i],
                  [i \in DOMAIN d.cells |-> <<d.cells[i].monitor, 0>>],
                  IF k = "spike_detector" THEN <<>>
                  ELSE [i \in DOMAIN d.cells |-> d.cells[i].value])

\* self._data.size (line 436).
DataSize(d) == Len(d.cells)

\* for monitor, population in self.monitors (line 341): iterating the dict
\* gives its keys, and a Monitor does not unpack into two names.
ConnectionsError(ms) == IF Len(ms) > 0 THEN "TypeError" ELSE "none"

DeviceReads == {"events", "number_of_events", "n_events", "Get", "connections"}

\* No device: the state of the device's variables where none is modelled.
NoDevice ==
    /\ kind = "none"
    /\ monitors = <<>>
    /\ devdata = EmptyDataArray
    /\ result = NoResult
    /\ reads = 0

-----------------------------------------------------------------------------
(* The interface between TVB and the spiking network: what the example       *)
(* script builds (red_ww_exc_io_inh_i.py, lines 125-171) and the per-step     *)
(* exchange it then runs (spec, 4.3 and 4.4)                                  *)

\* Population labels a configuration can name; "X" names no population.
Labels == {"E", "I", "X"}

\* The spiking network's populations (populations_names, line 69), whole or
\* with the inhibitory population left out.
Registries == {{"E", "I"}, {"E"}}

\* The script proxies at most MaxRegions regions (nest_nodes_ids, lines 52-56)
\* and runs MaxTick ticks (simulation_length over the integrator's dt, line 171).
MaxRegions == 1
MaxTick == 2

\* "connections" of tvb_to_nest_interfaces (line 143, the targets of S_e) and
\* of nest_to_tvb_interfaces (lines 154-159, the sources of r_e and r_i).
Configs == [tvb_to_nest : [1..2 -> Labels], nest_to_tvb : [1..2 -> Labels]]

InputVariable == "S_e"
OutputVariables == <<"r_e", "r_i">>

\* 4.3 step 1: for each proxied region, one input endpoint per target of the
\* coupling variable and one output endpoint per configured readout.
RegionEndpoints(c, r) ==
    [i \in 1..2 |-> [region |-> r, variable |-> InputVariable,
                     direction |-> "input", population |-> c.tvb_to_nest[i]]]
    \o [i \in 1..2 |-> [region |-> r, variable |-> OutputVariables[i],
                        direction |-> "output", population |-> c.nest_to_tvb[i]]]

RECURSIVE BuildEndpoints(_, _)
BuildEndpoints(c, n) ==
    IF n = 0 THEN <<>> ELSE BuildEndpoints(c, n - 1) \o RegionEndpoints(c, n)

\* 4.3 step 2: label lookup in the registry.
Resolves(eps, reg) == \A i \in DOMAIN eps : eps[i].population \in reg

\* An uncaught exception at line 163 ends the script there.
AfterBuildContinues(ok) == "configure"
AfterBuild(ok) == IF ok THEN "configure" ELSE "aborted"

Phases == {"AWAITING_TVB_STEP", "AWAITING_SPIKING_STEP"}

\* 4.4: the two states alternate.
SamePhase(p) == p
NextPhase(p) == IF p = "AWAITING_TVB_STEP" THEN "AWAITING_SPIKING_STEP" ELSE "AWAITING_TVB_STEP"

Inputs(eps) == {i \in DOMAIN eps : eps[i].direction = "input"}
Outputs(eps) == {i \in DOMAIN eps : eps[i].direction = "output"}

\* 4.4: "both halves must complete": every endpoint of the half has reached
\* the last stage of its exchange.
HalfStarted(x, is, stage) == \A i \in is : x[i] # "idle"
HalfComplete(x, is, stage) == \A i \in is : x[i] = stage

\* An endpoint's turn: the exchange runs the endpoints of a direction in order.
Turn(x, is, i, stage) == \A j \in is : j < i => x[j] = stage

\* No run: the state of the script's variables where no script is modelled.
NoRun ==
    /\ pc = "none"
    /\ cfg = [tvb_to_nest |-> <<"E", "I">>, nest_to_tvb |-> <<"E", "I">>]
    /\ registry = {"E", "I"}
    /\ endpoints = <<>>
    /\ phase = "AWAITING_TVB_STEP"
    /\ tick = 0
    /\ running = {}
    /\ stepped = <<>>
    /\ half = "step"
    /\ xchg = <<>>

\* No Communicator: the state of the Communicators' variables where none is modelled.
NoCommunicator ==
    /\ transport = "none"
    /\ tr = [input_time |-> "in_t", input_buffer |-> "in_v",
             output_time |-> "out_t", output_buffer |-> "out_v"]
    /\ heap = [r \in Refs |-> <<>>]
    /\ data = <<>>
    /\ got = <<>>
    /\ ret = "None"
    /\ target = <<>>
    /\ source = <<>>
    /\ fs = [p \in FilePaths |-> NoFile]
    /\ wpc = 0
    /\ written = FALSE

-----------------------------------------------------------------------------
(* The basal-ganglia interface builders for NEST                              *)
(* (tvb_nest/interfaces/models/basal_ganglia_izhikevich.py)                   *)

\* The classes of the file, by the part of their name that tells them apart:
\* BasalGangliaIzhikevich<name>Builder (lines 17, 24, 30, 41, 52, 63, 74).
NESTBuilders == {"NESTProxyNodes", "NESTInterface", "NESTRemoteInterface",
                 "NESTOutputTransformerInterface", "NESTInputTransformerInterface",
                 "NESTTransformerInterface", "TVBNESTInterface"}

ConfigMethods == {"default_output_config", "default_input_config"}

\* The methods a class body defines: the first two classes are "pass"
\* (lines 21, 27), the other five define the two configuration methods.
Defines(cls) ==
    IF cls \in {"NESTProxyNodes", "NESTInterface"} THEN {} ELSE ConfigMethods

\* The class whose method the body of an override calls (lines 35, 46, 57, 68, 79
\* for default_output_config; lines 38, 49, 60, 71, 82 for default_input_config).
DelegateSwapped(cls, method) ==
    CASE cls = "NESTRemoteInterface" -> "SpikeNetRemoteInterface"
      [] cls = "NESTOutputTransformerInterface" -> "SpikeNetOutputTransformerInterface"
      [] cls = "NESTInputTransformerInterface" -> "SpikeNetInputTransformerInterface"
      [] cls = "NESTTransformerInterface" ->
            IF method = "default_input_config" THEN "SpikeNetInputTransformerInterface"
            ELSE "SpikeNetTransformerInterface"
      [] cls = "TVBNESTInterface" -> "TVBSpikeNetInterface"
Delegate(cls, method) ==
    CASE cls = "NESTRemoteInterface" -> "SpikeNetRemoteInterface"
      [] cls = "NESTOutputTransformerInterface" -> "SpikeNetOutputTransformerInterface"
      [] cls = "NESTInputTransformerInterface" -> "SpikeNetInputTransformerInterface"
      [] cls = "NESTTransformerInterface" -> "SpikeNetTransformerInterface"
      [] cls = "TVBNESTInterface" -> "TVBSpikeNetInterface"

\* The generic builder a class inherits the basal-ganglia configuration from:
\* its last base class (lines 18, 25, 32, 43, 54, 65, 76).
SpikeNetBase(cls) ==
    CASE cls = "NESTProxyNodes" -> "SpikeNetProxyNodes"
      [] cls = "NESTInterface" -> "SpikeNetInterface"
      [] cls = "NESTRemoteInterface" -> "SpikeNetRemoteInterface"
      [] cls = "NESTOutputTransformerInterface" -> "SpikeNetOutputTransformerInterface"
      [] cls = "NESTInputTransformerInterface" -> "SpikeNetInputTransformerInterface"
      [] cls = "NESTTransformerInterface" -> "SpikeNetTransformerInterface"
      [] cls = "TVBNESTInterface" -> "TVBSpikeNetInterface"

\* A wiring table: not set, set by the user, or the default table of a generic builder.
Unset == <<"unset">>
Custom == <<"custom">>
DefaultTable(base, method) == <<base, method>>

\* A method of a generic builder: it writes its default per-variable wiring
\* table into the builder and, a procedure, returns None (spec, 4.3).
BaseCall(base, method, w) ==
    IF method = "default_output_config"
    THEN [w EXCEPT !.output = DefaultTable(base, method), !.ret = "None"]
    ELSE [w EXCEPT !.input = DefaultTable(base, method), !.ret = "None"]

\* An override: the call of the generic builder's method is an expression
\* statement, the body has no return (lines 34-35, 37-38 and alike).
OverrideCall(cls, method, w) ==
    [BaseCall(Delegate(cls, method), method, w) EXCEPT !.ret = "None"]

\* Attribute lookup: the method of the class where it defines one, else the
\* method of the generic builder it inherits from.
Call(cls, method, w) ==
    IF method \in Defines(cls)
    THEN OverrideCall(cls, method, w)
    ELSE BaseCall(SpikeNetBase(cls), method, w)

-----------------------------------------------------------------------------
(* ANNarchy devices: the registries of their classes, what a constructor     *)
(* leaves in model, and Set / Get / GetConnections                            *)
(* (tvb_annarchy/annarchy_models/devices.py)                                  *)

InputDeviceKeys == {"poisson_generator", "inhomogeneous_poisson_generator", "spike_generator",
                    "dc_generator", "step_current_generator", "ac_generator"}
OutputDeviceKeys == {"monitor", "spike_detector", "multimeter", "spike_multimeter", "voltmeter"}
OutputSpikeDeviceKeys == {"spike_detector", "spike_multimeter"}

\* ANNarchyInputDeviceDict (lines 218-223).
ANNarchyInputDeviceDict ==
    [k \in InputDeviceKeys |->
        CASE k = "poisson_generator" -> "ANNarchyPoissonGenerator"
          [] k = "inhomogeneous_poisson_generator" -> "ANNarchyInhomogeneousPoissonGenerator"
          [] k = "spike_generator" -> "ANNarchySpikeGenerator"
          [] k = "dc_generator" -> "ANNarchyDCGenerator"
          [] k = "step_current_generator" -> "ANNarchyStepCurrentGenerator"
          [] k = "ac_generator" -> "ANNarchyACGenerator"]

\* ANNarchyOutputDeviceDict (lines 536-540).
ANNarchyOutputDeviceDict ==
    [k \in OutputDeviceKeys |->
        CASE k = "monitor" -> "ANNarchyMonitor"
          [] k = "spike_detector" -> "ANNarchySpikeDetector"
          [] k = "multimeter" -> "ANNarchyMultimeter"
          [] k = "spike_multimeter" -> "ANNarchySpikeMultimeter"
          [] k = "voltmeter" -> "ANNarchyVoltmeter"]

\* ANNarchyOutputSpikeDeviceDict (lines 542-543).
ANNarchyOutputSpikeDeviceDict ==
    [k \in OutputSpikeDeviceKeys |->
        CASE k = "spike_detector" -> "ANNarchySpikeDetector"
          [] k = "spike_multimeter" -> "ANNarchySpikeMultimeter"]

InputDeviceClasses == {ANNarchyInputDeviceDict[k] : k \in InputDeviceKeys}
OutputDeviceClasses == {ANNarchyOutputDeviceDict[k] : k \in OutputDeviceKeys}

\* The class attribute model (lines 135, 158, 166, 174, 182, 190, 450, 460,
\* 465, 475, 508).
ClassModel(cls) ==
    CASE cls = "ANNarchyPoissonGenerator" -> "poisson_generator"
      [] cls = "ANNarchyInhomogeneousPoissonGenerator" -> "inhomogeneous_poisson_generator"
      [] cls = "ANNarchySpikeGenerator" -> "spike_generator"
      [] cls = "ANNarchyDCGenerator" -> "dc_generator"
      [] cls = "ANNarchyStepCurrentGenerator" -> "step_current_generator"
      [] cls = "ANNarchyACGenerator" -> "ac_generator"
      [] cls = "ANNarchyMultimeter" -> "multimeter"
      [] cls = "ANNarchyMonitor" -> "monitor"
      [] cls = "ANNarchyVoltmeter" -> "voltmeter"
      [] cls = "ANNarchySpikeDetector" -> "spike_detector"
      [] cls = "ANNarchySpikeMultimeter" -> "spike_multimeter"

\* ANNarchyOutputDevice.__init__ (lines 257-258): model is assigned only when
\* the argument is not empty; otherwise the class attribute shows through.
ANNarchyOutputDeviceInit(cls, model) == IF model # "" THEN model ELSE ClassModel(cls)

\* self.model after the constructor of the class has run with the argument
\* model. Input devices assign their name after super().__init__ (lines 140,
\* 162, 170, 178, 186, 194); ANNarchyMultimeter and ANNarchyMonitor assign
\* nothing more (lines 452-461); ANNarchyVoltmeter assigns "voltmeter" (line
\* 470); ANNarchySpikeDetector assigns "spike_detector" (line 482);
\* ANNarchySpikeMultimeter runs both constructors and then assigns
\* "spike_detector" (line 515).
ModelAfterInit(cls, model) ==
    CASE cls \in InputDeviceClasses -> ClassModel(cls)
      [] cls \in {"ANNarchyMultimeter", "ANNarchyMonitor"} -> ANNarchyOutputDeviceInit(cls, model)
      [] cls = "ANNarchyVoltmeter" -> "voltmeter"
      [] cls = "ANNarchySpikeDetector" -> "spike_detector"
      [] cls = "ANNarchySpikeMultimeter" -> "spike_detector"

\* _default_attrs (line 250).
DefaultAttrs == {"variables", "period", "period_offset", "start"}

\* Attributes of an input device's population (arguments of line 137).
PopulationAttrs == {"rates"}

AttrNames(cls) == IF cls \in InputDeviceClasses THEN PopulationAttrs ELSE DefaultAttrs

\* The dictionaries Set is called with: empty, or one attribute and its value.
ValuesDicts(names) == {<<>>} \cup UNION {[{a} -> Vals] : a \in names}

\* The attrs argument of Get: some names, or None for all attributes. None is
\* written as no names; an empty collection of names is not among the arguments.
NoneAttrs == {}
AttrsArguments(names) == SUBSET names

\* What a call returned.
ReturnedNone == [tag |-> "None"]
ReturnedDict(d) == [tag |-> "dict", values |-> d]
ReturnedList(l) == [tag |-> "list", values |-> l]

\* ANNarchyOutputDevice.Set (lines 308-310): values_dict.items is the bound
\* method, not its result, and iterating it raises TypeError for the first
\* monitor; no attribute is set.
OutputSetError(n) == IF n > 0 THEN "TypeError" ELSE "none"

\* ANNarchyOutputDevice.Get (lines 325-333): per monitor, each attribute's
\* value is appended to the list under its name; without a monitor the
\* dictionary stays empty.
OutputGet(values, keys) ==
    IF Len(values) = 0 THEN <<>>
    ELSE [a \in (IF keys = NoneAttrs THEN DefaultAttrs ELSE keys) |->
            [m \in 1..Len(values) |-> values[m][a]]]

\* ANNarchyOutputDeviceConnection (lines 226-233).
ANNarchyOutputDeviceConnection(pre, post) ==
    [pre |-> pre, post |-> post, weight |-> 1, delay |-> 0, target |-> "None"]

\* ANNarchyPopulation.Set and Get, which the input device calls (lines 45, 54):
\* Set stores the values, Get returns the dictionary of the attributes asked for.
PopulationSet(values, vd) ==
    [values EXCEPT ![1] = [a \in DOMAIN values[1] |-> IF a \in DOMAIN vd THEN vd[a] ELSE values[1][a]]]
PopulationGet(values, keys) ==
    [a \in (IF keys = NoneAttrs THEN DOMAIN values[1] ELSE keys) |-> values[1][a]]

\* ANNarchyInputDevice.Get (line 54): the dictionary is computed and dropped,
\* the method has no return statement.
InputGet(values, keys) == ReturnedNone

\* ANNarchyInputDevice._GetFromConnections (line 89): no return statement either.
InputGetFromConnections(values, keys) == ReturnedNone

-----------------------------------------------------------------------------
(* random_uniform_delay (tvb_nest/nest_models/builders/nest_templates.py,     *)
(* lines 62-75). Times are in tenths of a millisecond and sigma in tenths, so *)
(* that (1 - sigma) * delay is a whole number.                                *)

\* Delays are whole milliseconds up to MaxDelay; low and high are half
\* milliseconds up to MaxDelay.
MaxDelay == 2
Delays == {10 * d : d \in 0..MaxDelay}
DelayLimits == {5 * i : i \in 0..(2 * MaxDelay)}

\* sigma: None, or 0, 0.1 (the default), 0.5, 1.5.
Sigmas == {[given |-> FALSE, tenths |-> 0]} \cup [given : {TRUE}, tenths : {0, 1, 5, 15}]

\* np.maximum of two numbers.
Maximum(x, y) == IF x >= y THEN x ELSE y

\* sigma is not None and sigma > 0.0 (line 66).
Spreads(sigma) == sigma.given /\ sigma.tenths > 0

\* low = np.maximum(low, (1 - sigma) * delay) (line 67).
LowAdjusted(d, low, sigma) ==
    IF Spreads(sigma) THEN Maximum(low, ((10 - sigma.tenths) * d) \div 10) ELSE low

\* high = np.maximum(high, (1 + sigma) * delay) (line 68).
HighAdjustedDown(d, high, sigma) ==
    IF Spreads(sigma) THEN Maximum(high, ((10 - sigma.tenths) * d) \div 10) ELSE high
HighAdjusted(d, high, sigma) ==
    IF Spreads(sigma) THEN Maximum(high, ((10 + sigma.tenths) * d) \div 10) ELSE high

NotCalled == [tag |-> "none", value |-> 0, min |-> 0, max |-> 0]
Returned(v) == [tag |-> "return", value |-> v, min |-> 0, max |-> 0]
Raised(e) == [tag |-> e, value |-> 0, min |-> 0, max |-> 0]
Uniform(lo, hi) == [tag |-> "uniform", value |-> 0, min |-> lo, max |-> hi]

\* random_uniform_delay (lines 62-71): what the call returns or raises.
random_uniform_delay(d, low, high, sigma) ==
    IF d = 0 THEN Returned(d)
    ELSE IF HighAdjusted(d, high, sigma) <= LowAdjusted(d, low, sigma)
         THEN Raised("ValueError")
         ELSE Uniform(LowAdjusted(d, low, sigma), HighAdjusted(d, high, sigma))

-----------------------------------------------------------------------------
(* The simulation batches of the SBI script                                   *)
(* (examples/tvb_nest/notebooks/cerebellum/scripts/sbi_script.py): prior      *)
(* samples split into batches, simulated batch by batch into result files,    *)
(* loaded and paired for training                                             *)

\* Up to MaxSamples prior samples, in 1..MaxBatches batches (config.N_SIM_BATCHES).
MaxSamples == 5
MaxBatches == 2

\* The prior samples, named by their index in priors_samples.
PriorsSamples(n) == [i \in 1..n |-> i - 1]

\* seq[start::step] for 0 <= start and step >= 1 (line 63).
RECURSIVE Slice(_, _, _)
SliceChunk(seq, start, step) ==
    LET size == (Len(seq) + step - 1) \div step
        from == start * size
    IN  [j \in 1..(IF from >= Len(seq) THEN 0
                   ELSE IF from + size > Len(seq) THEN Len(seq) - from ELSE size) |->
            seq[from + j]]
Slice(seq, start, step) ==
    IF start >= Len(seq) THEN <<>>
    ELSE <<seq[start + 1]>> \o Slice(seq, start + step, step)

\* priors_samples_per_batch (lines 56-66): batch_samples[iB] = priors_samples[iB::N].
priors_samples_per_batch(samples, N) == [b \in 1..N |-> Slice(samples, b - 1, N)]

\* torch.concat / np.concatenate of the batches, in batch order (lines 165, 173).
RECURSIVE Concat(_)
Concat(seqs) == IF seqs = <<>> THEN <<>> ELSE Head(seqs) \o Concat(Tail(seqs))

\* The result of the simulation run for a prior sample (line 147), named by
\* the sample that produced it.
SimRes(sample) == sample

\* np.load of a batch's result file (line 172): the file exists once the
\* batch's first simulation has been written (lines 148-149).
ResultsLoadError(files) ==
    IF \E b \in DOMAIN files : files[b] = <<>> THEN "FileNotFoundError" ELSE "none"

\* sbi_infer_for_iG (lines 433-434, 464): the training set of the fit with all
\* samples is priors_samples[:n_samples] against sim_res, row by row; the fit
\* runs (lines 446-449) take rows of the same two arrays by common indices.
TrainingPairs(batches, files) ==
    LET priors_samples == Concat(batches)
        sim_res == Concat(files)
    IN  [i \in 1..Len(sim_res) |-> <<priors_samples[i], sim_res[i]>>]

-----------------------------------------------------------------------------
(* sbi_train (sbi_script.py, lines 339-361): the loop that builds the         *)
(* posterior, trying again when build_posterior raises                        *)

\* keep_building = -10 (line 345).
KeepBuildingStart == -10

\* What build_posterior can raise.
BuildErrors == {"AssertionError", "RuntimeError"}

\* The number the warning announces: 10 + keep_building + 2 (line 357).
Announced(keep_building) == 10 + keep_building + 2

\* After the loop (lines 359-361): raise Exception(exception) when no
\* posterior was built, else return it.
AfterLoop(t) ==
    IF t.posterior = <<>>
    THEN [t EXCEPT !.out = "raised", !.carried = t.exception]
    ELSE [t EXCEPT !.out = "returned", !.returned = t.posterior]

-----------------------------------------------------------------------------
(* Loading posterior samples over runs and over G values                      *)
(* (sbi_script.py, lines 291-336)                                             *)

\* config.N_FIT_RUNS runs and len(config.Gs) values of G, at most.
MaxRuns == 2
MaxGs == 2

\* The samples a run's file holds, named by the G and the run they belong to.
SamplesOf(iG, iR) == <<iG, iR>>

\* load_posterior_samples_all_runs (lines 308-320), from run iR on: a run
\* whose file does not load is warned about and left out (lines 318-319).
RECURSIVE LoadRunsFrom(_, _, _)
LoadRunsFrom(files, iG, iR) ==
    IF iR > MaxRuns THEN <<>>
    ELSE (IF files[iG][iR] THEN <<SamplesOf(iG, iR)>> ELSE <<>>) \o LoadRunsFrom(files, iG, iR + 1)

\* The right-hand side of lines 331 and 333: the file of G alone when runs is
\* False, which can fail, else the samples of all runs.
LoadForG(p, iG) ==
    IF p.entry = "all_Gs_runs_False"
    THEN (IF p.gfiles[iG] THEN [err |-> "none", value |-> <<SamplesOf(iG, 0)>>]
          ELSE [err |-> "FileNotFoundError", value |-> <<>>])
    ELSE [err |-> "none", value |-> LoadRunsFrom(p.files, iG, 1)]

\* samples[G] = ... (lines 331, 333): the function has no name G (its loop
\* variable is iG), so storing the loaded value raises NameError.
StoreUnderG(samples, iG, value) == [err |-> "NameError", samples |-> samples]

-----------------------------------------------------------------------------
(* Idle values: the state of a variable where its scenario is not modelled *)

NoAttributes == attrs = <<>>
NoBuilder == wiring = "none"
NoDelay == delay = "none"
NoSbi == sbi = "none"
NoTraining == training = "none"
NoPosteriors == posteriors = "none"
NoScripts == NoBuilder /\ NoDelay /\ NoSbi /\ NoTraining /\ NoPosteriors

-----------------------------------------------------------------------------
(* The state machine *)

NoPath == <<>>

Init ==
    /\ transport \in {"memory", "file"}
    /\ tr = [input_time |-> "in_t", input_buffer |-> "in_v",
             output_time |-> "out_t", output_buffer |-> "out_v"]
    /\ heap = [r \in Refs |-> <<>>]
    /\ data = None
    /\ got = <<>>
    /\ ret = "None"
    /\ last = "init"
    /\ err = "none"
    /\ IF transport = "file"
       THEN target \in UserPaths /\ source \in UserPaths
       ELSE target = NoPath /\ source = NoPath
    /\ fs = [p \in FilePaths |-> NoFile]
    /\ wpc = 0
    /\ written = FALSE
    /\ NoDevice
    /\ NoRun
    /\ NoAttributes
    /\ NoScripts

\* A send starts only when the sender is not inside one (one sender, one thread).
Send(d) ==
    /\ wpc = 0
    /\ last' = "Sender.send"
    /\ SenderSend(d)
    /\ UNCHANGED <<transport, target, source>>
    /\ UNCHANGED <<devvars, simvars, auxvars>>

CallSender(d) ==
    /\ wpc = 0
    /\ last' = "Sender.__call__"
    /\ SenderCall(d)
    /\ UNCHANGED <<transport, target, source>>
    /\ UNCHANGED <<devvars, simvars, auxvars>>

\* The receiver of a file runs in the reading process, at any time.
Receive ==
    /\ last' = "Receiver.receive"
    /\ ReceiverReceive
    /\ UNCHANGED <<transport, target, source>>
    /\ UNCHANGED <<devvars, simvars, auxvars>>

CallReceiver ==
    /\ last' = "Receiver.__call__"
    /\ ReceiverCall
    /\ UNCHANGED <<transport, target, source>>
    /\ UNCHANGED <<devvars, simvars, auxvars>>

Next ==
    \/ \E d \in DataIn : Send(d)
    \/ \E d \in DataIn : CallSender(d)
    \/ Receive
    \/ CallReceiver
    \/ \E w \in Weights : Transform(w)
    \/ MutateCaller
    \/ MutateTransformer
    \/ SavezWrite
    \/ SavezClose
    \/ SavezFail

Spec == Init /\ [][Next]_vars

-----------------------------------------------------------------------------
(* The output device: its construction, the backend recording into its       *)
(* monitors, and the reads and the reset of devices.py                        *)

\* __init__ (lines 254-266, 452-456, 479-484, 510-516) over 0..MaxMonitors monitors.
InitDevices ==
    /\ NoCommunicator
    /\ NoRun
    /\ NoAttributes
    /\ NoScripts
    /\ kind \in DeviceKinds
    /\ \E n \in 0..MaxMonitors : monitors = [m \in 1..n |-> <<>>]
    /\ devdata = EmptyDataArray
    /\ result = NoResult
    /\ reads = 0
    /\ last = "init"
    /\ err = "none"

\* The backend's recording mechanism: a simulation step adds a sample to a monitor.
BackendRecord(m, v) ==
    /\ m \in DOMAIN monitors
    /\ Len(monitors[m]) < MaxRecorded
    /\ monitors' = [monitors EXCEPT ![m] = Append(@, v)]
    /\ last' = "record"
    /\ err' = "none"
    /\ result' = NoResult
    /\ reads' = 0
    /\ UNCHANGED <<kind, devdata, iovars, simvars, auxvars>>

\* One more access of the device.
Accessed == reads' = IF reads < MaxReads THEN reads + 1 ELSE reads

\* The events property.
Events ==
    /\ \E r \in {Record(kind, monitors, devdata)} :
           /\ monitors' = r.monitors
           /\ devdata' = r.data
           /\ err' = r.err
           /\ result' = IF r.err = "none" THEN EventsOf(kind, r.data) ELSE NoResult
    /\ last' = "events"
    /\ Accessed
    /\ UNCHANGED <<kind, iovars, simvars, auxvars>>

\* The number_of_events property (lines 433-436), inherited by every class.
NumberOfEventsBody ==
    \E r \in {Record(kind, monitors, devdata)} :
        /\ monitors' = r.monitors
        /\ devdata' = r.data
        /\ err' = r.err
        /\ result' = IF r.err = "none" THEN Count(DataSize(r.data)) ELSE NoResult

NumberOfEvents ==
    /\ NumberOfEventsBody
    /\ last' = "number_of_events"
    /\ Accessed
    /\ UNCHANGED <<kind, iovars, simvars, auxvars>>

\* The n_events property (lines 438-440).
NEvents ==
    /\ NumberOfEventsBody
    /\ last' = "n_events"
    /\ Accessed
    /\ UNCHANGED <<kind, iovars, simvars, auxvars>>

\* The reset property (lines 442-446): _record, then a new empty _data.
Reset ==
    /\ \E r \in {Record(kind, monitors, devdata)} :
           /\ monitors' = r.monitors
           /\ devdata' = IF r.err = "none" THEN EmptyDataArray ELSE r.data
           /\ err' = r.err
    /\ result' = NoResult
    /\ last' = "reset"
    /\ Accessed
    /\ UNCHANGED <<kind, iovars, simvars, auxvars>>

\* Get (lines 318-333): one list per attribute, one entry per monitor.
Get ==
    /\ result' = Collection("dict", Len(monitors))
    /\ err' = "none"
    /\ last' = "Get"
    /\ Accessed
    /\ UNCHANGED <<kind, monitors, devdata, iovars, simvars, auxvars>>

\* The connections property (lines 379-385, over _GetConnections, lines 335-343).
Connections ==
    /\ err' = ConnectionsError(monitors)
    /\ result' = IF ConnectionsError(monitors) = "none" THEN Collection("list", 0) ELSE NoResult
    /\ last' = "connections"
    /\ Accessed
    /\ UNCHANGED <<kind, monitors, devdata, iovars, simvars, auxvars>>

NextDevices ==
    \/ \E m \in 1..MaxMonitors : \E v \in Vals : BackendRecord(m, v)
    \/ Events
    \/ NumberOfEvents
    \/ NEvents
    \/ Reset
    \/ Get
    \/ Connections

SpecDevices == InitDevices /\ [][NextDevices]_vars

-----------------------------------------------------------------------------
(* The example script from the building of the interface on (lines 163-171)  *)
(* and the per-step exchange that simulator.run drives (spec, 4.4)            *)

\* The script before line 163: the builder is configured, nothing is built.
InitCosim ==
    /\ NoCommunicator
    /\ NoDevice
    /\ NoAttributes
    /\ NoScripts
    /\ pc = "build"
    /\ cfg \in Configs
    /\ registry \in Registries
    /\ endpoints = <<>>
    /\ phase = "AWAITING_TVB_STEP"
    /\ tick = 0
    /\ running = {}
    /\ stepped = <<>>
    /\ half = "step"
    /\ xchg = <<>>
    /\ last = "init"
    /\ err = "none"

\* tvb_nest_builder.build_interface() (line 163) over n proxied regions:
\* endpoints are created and resolved; an unknown label raises.
BuildInterface(n) ==
    /\ pc = "build"
    /\ \E eps \in {BuildEndpoints(cfg, n)} :
           /\ pc' = AfterBuild(Resolves(eps, registry))
           /\ err' = IF Resolves(eps, registry) THEN "none" ELSE "UnknownPopulation"
           /\ endpoints' = IF Resolves(eps, registry) THEN eps ELSE <<>>
           /\ xchg' = [i \in DOMAIN endpoints' |-> "idle"]
    /\ last' = "build_interface"
    /\ UNCHANGED <<cfg, registry, phase, tick, running, stepped, half, iovars, devvars, auxvars>>

\* simulator.configure(tvb_nest_interface=tvb_nest_model) (line 168).
Configure ==
    /\ pc = "configure"
    /\ pc' = "run"
    /\ phase' = "AWAITING_TVB_STEP"
    /\ half' = "step"
    /\ tick' = 0
    /\ last' = "configure"
    /\ UNCHANGED <<err, cfg, registry, endpoints, running, stepped, xchg, iovars, devvars, auxvars>>

Simulators == {"tvb", "spiking"}
Awaited(p) == IF p = "AWAITING_TVB_STEP" THEN "tvb" ELSE "spiking"
LastStage(p) == IF p = "AWAITING_TVB_STEP" THEN "sent" ELSE "written"
HalfEndpoints(p, eps) == IF p = "AWAITING_TVB_STEP" THEN Inputs(eps) ELSE Outputs(eps)

\* The driver starts the step of the simulator the phase awaits.
StepBegin(sim) ==
    /\ pc = "run"
    /\ tick < MaxTick
    /\ half = "step"
    /\ running = {}
    /\ sim = Awaited(phase)
    /\ running' = running \cup {sim}
    /\ stepped' = Append(stepped, sim)
    /\ last' = "step_begin"
    /\ UNCHANGED <<err, pc, cfg, registry, endpoints, phase, tick, half, xchg, iovars, devvars, auxvars>>

\* The step returns: the phase's exchange starts, with every endpoint of its
\* half yet to be served.
StepEnd(sim) ==
    /\ sim \in running
    /\ running' = running \ {sim}
    /\ half' = "exchange"
    /\ xchg' = [i \in DOMAIN xchg |->
                   IF i \in HalfEndpoints(phase, endpoints) THEN "idle" ELSE xchg[i]]
    /\ last' = "step_end"
    /\ UNCHANGED <<err, pc, cfg, registry, endpoints, phase, tick, stepped, iovars, devvars, auxvars>>

\* One stage of one endpoint's exchange, the endpoints of a half in order.
Stage(i, dir, p, from, to) ==
    /\ pc = "run"
    /\ half = "exchange"
    /\ phase = p
    /\ i \in DOMAIN endpoints
    /\ endpoints[i].direction = dir
    /\ xchg[i] = from
    /\ Turn(xchg, HalfEndpoints(p, endpoints), i, LastStage(p))
    /\ xchg' = [xchg EXCEPT ![i] = to]
    /\ UNCHANGED <<err, pc, cfg, registry, endpoints, phase, tick, running, stepped, half,
                   iovars, devvars, auxvars>>

\* After the TVB step: run the input endpoint's Transformer, then Send into
\* the spiking network's input devices.
InputTransform(i) ==
    /\ Stage(i, "input", "AWAITING_TVB_STEP", "idle", "transformed")
    /\ last' = "input_transform"

InputSend(i) ==
    /\ Stage(i, "input", "AWAITING_TVB_STEP", "transformed", "sent")
    /\ last' = "input_send"

\* After the spiking step: Receive from the output devices, run the
\* Transformer, write back into TVB's external-input array.
OutputReceive(i) ==
    /\ Stage(i, "output", "AWAITING_SPIKING_STEP", "idle", "received")
    /\ last' = "output_receive"

OutputTransform(i) ==
    /\ Stage(i, "output", "AWAITING_SPIKING_STEP", "received", "transformed")
    /\ last' = "output_transform"

OutputWrite(i) ==
    /\ Stage(i, "output", "AWAITING_SPIKING_STEP", "transformed", "written")
    /\ last' = "output_write"

\* The half is complete: the other simulator is awaited; a tick ends with the
\* spiking half.
HalfDone ==
    /\ pc = "run"
    /\ half = "exchange"
    /\ HalfComplete(xchg, HalfEndpoints(phase, endpoints), LastStage(phase))
    /\ phase' = NextPhase(phase)
    /\ half' = "step"
    /\ tick' = IF phase = "AWAITING_SPIKING_STEP" THEN tick + 1 ELSE tick
    /\ last' = "half_done"
    /\ UNCHANGED <<err, pc, cfg, registry, endpoints, running, stepped, xchg, iovars, devvars, auxvars>>

\* simulator.run(simulation_length=100.0) returns (line 171).
RunReturns ==
    /\ pc = "run"
    /\ tick = MaxTick
    /\ pc' = "done"
    /\ last' = "run"
    /\ UNCHANGED <<err, cfg, registry, endpoints, phase, tick, running, stepped, half, xchg,
                   iovars, devvars, auxvars>>

\* Endpoints per proxied region: two targets of S_e, and r_e and r_i.
EndpointIndices == 1..(4 * MaxRegions)

NextCosim ==
    \/ \E n \in 1..MaxRegions : BuildInterface(n)
    \/ Configure
    \/ \E sim \in Simulators : StepBegin(sim)
    \/ \E sim \in Simulators : StepEnd(sim)
    \/ \E i \in EndpointIndices : InputTransform(i)
    \/ \E i \in EndpointIndices : InputSend(i)
    \/ \E i \in EndpointIndices : OutputReceive(i)
    \/ \E i \in EndpointIndices : OutputTransform(i)
    \/ \E i \in EndpointIndices : OutputWrite(i)
    \/ HalfDone
    \/ RunReturns

SpecCosim == InitCosim /\ [][NextCosim]_vars

-----------------------------------------------------------------------------
(* Interface builders: a builder of one of the classes, configured by the     *)
(* user and by its default configuration methods                              *)

InitBuilders ==
    /\ wiring \in [cls : NESTBuilders, output : {Unset}, input : {Unset},
                    built : {FALSE}, ret : {"None"}]
    /\ last = "init"
    /\ err = "none"
    /\ NoCommunicator
    /\ NoDevice
    /\ NoRun
    /\ NoAttributes
    /\ NoDelay /\ NoSbi /\ NoTraining /\ NoPosteriors

BuilderFrame == UNCHANGED <<err, iovars, devvars, simvars, attrs, delay, sbi, training, posteriors>>

\* The user sets a wiring table of the builder.
SetOutputInterfaces ==
    /\ wiring' = [wiring EXCEPT !.output = Custom, !.ret = "None"]
    /\ last' = "output_interfaces"
    /\ BuilderFrame

SetInputInterfaces ==
    /\ wiring' = [wiring EXCEPT !.input = Custom, !.ret = "None"]
    /\ last' = "input_interfaces"
    /\ BuilderFrame

DefaultOutputConfig ==
    /\ wiring' = Call(wiring.cls, "default_output_config", wiring)
    /\ last' = "default_output_config"
    /\ BuilderFrame

DefaultInputConfig ==
    /\ wiring' = Call(wiring.cls, "default_input_config", wiring)
    /\ last' = "default_input_config"
    /\ BuilderFrame

\* The shared algorithm builds the endpoints from the two tables (spec, 4.3):
\* no class of the file defines it, so it is the generic builder's.
Build ==
    /\ "build" \notin Defines(wiring.cls)
    /\ wiring.output # Unset
    /\ wiring.input # Unset
    /\ wiring' = [wiring EXCEPT !.built = TRUE, !.ret = "None"]
    /\ last' = "build"
    /\ BuilderFrame

NextBuilders ==
    \/ SetOutputInterfaces
    \/ SetInputInterfaces
    \/ DefaultOutputConfig
    \/ DefaultInputConfig
    \/ Build

SpecBuilders == InitBuilders /\ [][NextBuilders]_vars

-----------------------------------------------------------------------------
(* ANNarchy devices: construction from a registry, configuration and          *)
(* connections                                                                *)

\* A device is built from the class registered under a key, without a model
\* argument; an output device over up to MaxMonitors monitors, an input device
\* over its population. Attributes start at 0.
InitDeviceAttributes ==
    /\ \E k \in InputDeviceKeys \cup OutputDeviceKeys :
         \E n \in 0..MaxMonitors :
            /\ kind = IF k \in InputDeviceKeys THEN ANNarchyInputDeviceDict[k]
                      ELSE ANNarchyOutputDeviceDict[k]
            /\ k \in InputDeviceKeys => n = 1
            /\ attrs = [key |-> k,
                        model |-> ModelAfterInit(kind, ""),
                        values |-> [m \in 1..n |-> [a \in AttrNames(kind) |-> 0]],
                        values_dict |-> <<>>,
                        names |-> NoneAttrs]
    /\ result = ReturnedNone
    /\ last = "init"
    /\ err = "none"
    /\ monitors = <<>>
    /\ devdata = EmptyDataArray
    /\ reads = 0
    /\ NoCommunicator
    /\ NoRun
    /\ NoScripts

AttributesFrame == UNCHANGED <<kind, monitors, devdata, reads, iovars, simvars,
                               wiring, delay, sbi, training, posteriors>>

ANNarchyOutputDeviceSet(vd) ==
    /\ kind \in OutputDeviceClasses
    /\ err' = OutputSetError(Len(attrs.values))
    /\ attrs' = [attrs EXCEPT !.values_dict = vd]
    /\ result' = ReturnedNone
    /\ last' = "ANNarchyOutputDevice.Set"
    /\ AttributesFrame

ANNarchyOutputDeviceGet(keys) ==
    /\ kind \in OutputDeviceClasses
    /\ err' = "none"
    /\ attrs' = [attrs EXCEPT !.names = keys]
    /\ result' = ReturnedDict(OutputGet(attrs.values, keys))
    /\ last' = "ANNarchyOutputDevice.Get"
    /\ AttributesFrame

\* _GetConnections (lines 340-343), called by GetConnections (line 377) and by
\* the connections property (line 385).
OutputGetConnections(entry) ==
    /\ kind \in OutputDeviceClasses
    /\ err' = ConnectionsError(attrs.values)
    /\ attrs' = attrs
    /\ result' = IF err' = "none" THEN ReturnedList(<<>>) ELSE ReturnedNone
    /\ last' = entry
    /\ AttributesFrame

ANNarchyOutputDeviceGetConnections == OutputGetConnections("ANNarchyOutputDevice.GetConnections")

ANNarchyOutputDeviceConnections == OutputGetConnections("ANNarchyOutputDevice.connections")

ANNarchyInputDeviceSet(vd) ==
    /\ kind \in InputDeviceClasses
    /\ err' = "none"
    /\ attrs' = [attrs EXCEPT !.values = PopulationSet(attrs.values, vd), !.values_dict = vd]
    /\ result' = ReturnedNone
    /\ last' = "ANNarchyInputDevice.Set"
    /\ AttributesFrame

ANNarchyInputDeviceGet(keys) ==
    /\ kind \in InputDeviceClasses
    /\ err' = "none"
    /\ attrs' = [attrs EXCEPT !.names = keys]
    /\ result' = InputGet(attrs.values, keys)
    /\ last' = "ANNarchyInputDevice.Get"
    /\ AttributesFrame

ANNarchyInputDeviceGetFromConnections(keys) ==
    /\ kind \in InputDeviceClasses
    /\ err' = "none"
    /\ attrs' = [attrs EXCEPT !.names = keys]
    /\ result' = InputGetFromConnections(attrs.values, keys)
    /\ last' = "ANNarchyInputDevice._GetFromConnections"
    /\ AttributesFrame

NextDeviceAttributes ==
    \/ \E vd \in ValuesDicts({"period", "start"}) : ANNarchyOutputDeviceSet(vd)
    \/ \E keys \in AttrsArguments({"period", "start"}) : ANNarchyOutputDeviceGet(keys)
    \/ ANNarchyOutputDeviceGetConnections
    \/ ANNarchyOutputDeviceConnections
    \/ \E vd \in ValuesDicts(PopulationAttrs) : ANNarchyInputDeviceSet(vd)
    \/ \E keys \in AttrsArguments(PopulationAttrs) : ANNarchyInputDeviceGet(keys)
    \/ \E keys \in AttrsArguments({"weight", "delay"}) : ANNarchyInputDeviceGetFromConnections(keys)

SpecDeviceAttributes == InitDeviceAttributes /\ [][NextDeviceAttributes]_vars

-----------------------------------------------------------------------------
(* A call of random_uniform_delay, directly or through                        *)
(* random_uniform_tvb_delay                                                   *)

InitDelay ==
    /\ delay \in [delay : Delays, low : DelayLimits, high : DelayLimits, sigma : Sigmas,
                  out : {NotCalled}]
    /\ last = "init"
    /\ err = "none"
    /\ NoCommunicator
    /\ NoDevice
    /\ NoRun
    /\ NoAttributes
    /\ NoBuilder /\ NoSbi /\ NoTraining /\ NoPosteriors

DelayCall(entry) ==
    /\ delay.out = NotCalled
    /\ delay' = [delay EXCEPT !.out = random_uniform_delay(delay.delay, delay.low,
                                                           delay.high, delay.sigma)]
    /\ err' = IF delay'.out.tag = "ValueError" THEN "ValueError" ELSE "none"
    /\ last' = entry
    /\ UNCHANGED <<iovars, devvars, simvars, attrs, wiring, sbi, training, posteriors>>

RandomUniformDelay == DelayCall("random_uniform_delay")

\* random_uniform_tvb_delay (lines 74-75) passes the delay TVB holds for the
\* pair of regions.
RandomUniformTvbDelay == DelayCall("random_uniform_tvb_delay")

NextDelay ==
    \/ RandomUniformDelay
    \/ RandomUniformTvbDelay

SpecDelay == InitDelay /\ [][NextDelay]_vars

-----------------------------------------------------------------------------
(* The SBI script: batch the prior samples, simulate, load and pair           *)

InitSbi ==
    /\ sbi \in [n : 0..MaxSamples, N : 1..MaxBatches, pc : {"sample"},
                batches : {<<>>}, files : {<<>>}, pairs : {<<>>}]
    /\ last = "init"
    /\ err = "none"
    /\ NoCommunicator
    /\ NoDevice
    /\ NoRun
    /\ NoAttributes
    /\ NoBuilder /\ NoDelay /\ NoTraining /\ NoPosteriors

SbiFrame == UNCHANGED <<iovars, devvars, simvars, attrs, wiring, delay, training, posteriors>>

PriorsSamplesPerBatch ==
    /\ sbi.pc = "sample"
    /\ sbi' = [sbi EXCEPT !.batches = priors_samples_per_batch(PriorsSamples(sbi.n), sbi.N),
                          !.files = [b \in 1..sbi.N |-> <<>>],
                          !.pc = "simulate"]
    /\ last' = "priors_samples_per_batch"
    /\ err' = "none"
    /\ SbiFrame

\* One pass of the loop of simulate_TVB_for_sbi_batch (lines 129-149): the
\* next sample of the batch is simulated and the batch's result file is
\* written again with all results so far. Batches run as separate jobs, in any
\* order, and a job may not have finished when the results are loaded.
SimulateTVBForSbiBatch(iB) ==
    /\ sbi.pc = "simulate"
    /\ Len(sbi.files[iB]) < Len(sbi.batches[iB])
    /\ sbi' = [sbi EXCEPT !.files[iB] = Append(@, SimRes(sbi.batches[iB][Len(@) + 1]))]
    /\ last' = "simulate_TVB_for_sbi_batch"
    /\ err' = "none"
    /\ SbiFrame

SbiInferForIG ==
    /\ sbi.pc = "simulate"
    /\ err' = ResultsLoadError(sbi.files)
    /\ sbi' = [sbi EXCEPT !.pairs = IF err' = "none" THEN TrainingPairs(sbi.batches, sbi.files)
                                    ELSE <<>>,
                          !.pc = "done"]
    /\ last' = "sbi_infer_for_iG"
    /\ SbiFrame

NextSbi ==
    \/ PriorsSamplesPerBatch
    \/ \E iB \in 1..MaxBatches : iB <= sbi.N /\ SimulateTVBForSbiBatch(iB)
    \/ SbiInferForIG

SpecSbi == InitSbi /\ [][NextSbi]_vars

-----------------------------------------------------------------------------
(* A call of sbi_train                                                        *)

InitTraining ==
    /\ training \in [verbose : BOOLEAN, keep_building : {KeepBuildingStart}, attempts : {0},
                     warnings : {0}, announced : {0}, posterior : {<<>>},
                     exception : {"None"}, out : {"running"}, returned : {<<>>},
                     carried : {"None"}]
    /\ last = "init"
    /\ err = "none"
    /\ NoCommunicator
    /\ NoDevice
    /\ NoRun
    /\ NoAttributes
    /\ NoBuilder /\ NoDelay /\ NoSbi /\ NoPosteriors

TrainingFrame == UNCHANGED <<iovars, devvars, simvars, attrs, wiring, delay, sbi, posteriors>>

\* A pass of the loop in which build_posterior returns (lines 350-354).
BuildPosteriorReturns ==
    /\ training.out = "running"
    /\ training.keep_building < 0
    /\ training' = [training EXCEPT !.attempts = @ + 1,
                                    !.posterior = <<"posterior", training.attempts + 1>>,
                                    !.keep_building = 0]
    /\ last' = "build_posterior"
    /\ err' = "none"
    /\ TrainingFrame

\* A pass of the loop in which build_posterior raises (lines 355-358).
BuildPosteriorRaises(e) ==
    /\ training.out = "running"
    /\ training.keep_building < 0
    /\ training' = [training EXCEPT !.attempts = @ + 1,
                                    !.exception = e,
                                    !.warnings = @ + 1,
                                    !.announced = Announced(training.keep_building),
                                    !.keep_building = @ + 1]
    /\ last' = "build_posterior"
    /\ err' = "none"
    /\ TrainingFrame

SbiTrainEnds ==
    /\ training.out = "running"
    /\ training.keep_building >= 0
    /\ training' = AfterLoop(training)
    /\ last' = "sbi_train"
    /\ err' = IF training'.out = "raised" THEN "Exception" ELSE "none"
    /\ TrainingFrame

NextTraining ==
    \/ BuildPosteriorReturns
    \/ \E e \in BuildErrors : BuildPosteriorRaises(e)
    \/ SbiTrainEnds

SpecTraining == InitTraining /\ [][NextTraining]_vars

-----------------------------------------------------------------------------
(* A load of posterior samples: load_posterior_samples_all_runs for one G,    *)
(* or load_posterior_samples_all_Gs with runs None or False                   *)

InitPosteriors ==
    /\ posteriors \in [entry : {"all_runs", "all_Gs", "all_Gs_runs_False"},
                       files : [1..MaxGs -> [1..MaxRuns -> BOOLEAN]],
                       gfiles : [1..MaxGs -> BOOLEAN],
                       i : {1}, samples : {<<>>}, warned : {{}}, pc : {"loop"}]
    /\ last = "init"
    /\ err = "none"
    /\ NoCommunicator
    /\ NoDevice
    /\ NoRun
    /\ NoAttributes
    /\ NoBuilder /\ NoDelay /\ NoSbi /\ NoTraining

PosteriorsFrame == UNCHANGED <<iovars, devvars, simvars, attrs, wiring, delay, sbi, training>>

\* A pass of the loop of load_posterior_samples_all_runs (lines 314-319), for
\* the first G.
LoadPosteriorSamplesRun ==
    /\ posteriors.entry = "all_runs"
    /\ posteriors.pc = "loop"
    /\ posteriors.i <= MaxRuns
    /\ posteriors' = [posteriors EXCEPT
            !.i = @ + 1,
            !.samples = IF posteriors.files[1][posteriors.i]
                        THEN Append(@, SamplesOf(1, posteriors.i)) ELSE @,
            !.warned = IF posteriors.files[1][posteriors.i] THEN @ ELSE @ \cup {posteriors.i}]
    /\ last' = "load_posterior_samples"
    /\ err' = "none"
    /\ PosteriorsFrame

\* A pass of the loop of load_posterior_samples_all_Gs (lines 328-335): what
\* the try block raises is caught and warned about.
LoadPosteriorSamplesG ==
    /\ posteriors.entry # "all_runs"
    /\ posteriors.pc = "loop"
    /\ posteriors.i <= MaxGs
    /\ LET loaded == LoadForG(posteriors, posteriors.i)
           stored == IF loaded.err = "none"
                     THEN StoreUnderG(posteriors.samples, posteriors.i, loaded.value)
                     ELSE [err |-> loaded.err, samples |-> posteriors.samples]
       IN  posteriors' = [posteriors EXCEPT
                !.i = @ + 1,
                !.samples = stored.samples,
                !.warned = IF stored.err = "none" THEN @ ELSE @ \cup {posteriors.i}]
    /\ last' = "load_posterior_samples"
    /\ err' = "none"
    /\ PosteriorsFrame

\* return samples (lines 320, 336).
LoadPosteriorSamplesReturns ==
    /\ posteriors.pc = "loop"
    /\ posteriors.i > (IF posteriors.entry = "all_runs" THEN MaxRuns ELSE MaxGs)
    /\ posteriors' = [posteriors EXCEPT !.pc = "returned"]
    /\ last' = IF posteriors.entry = "all_runs" THEN "load_posterior_samples_all_runs"
               ELSE "load_posterior_samples_all_Gs"
    /\ err' = "none"
    /\ PosteriorsFrame

NextPosteriors ==
    \/ LoadPosteriorSamplesRun
    \/ LoadPosteriorSamplesG
    \/ LoadPosteriorSamplesReturns

SpecPosteriors == InitPosteriors /\ [][NextPosteriors]_vars

-----------------------------------------------------------------------------
(* Views of the state used by the properties *)

InputContent(h, t) == Content(h, <<t.input_time, t.input_buffer>>)
OutputContent(h, t) == Content(h, <<t.output_time, t.output_buffer>>)
TrContent(h, t) == Content(h, <<t.input_time, t.input_buffer, t.output_time, t.output_buffer>>)
CallerContent(h, d, g) == <<Content(h, d), Content(h, g)>>

\* This step is a receive that directly follows a successful send to the Transformer.
ReceiveAfterSend ==
    /\ transport = "memory"
    /\ last \in SendOps
    /\ err = "none"
    /\ last' \in RecvOps

-----------------------------------------------------------------------------
(* C1 *)

\* C1 as stated: after the sender sends (time, values) to a Transformer, a
\* receive from the same Transformer yields back the (time, values) sent.
C1_ReceiveYieldsWhatWasSent ==
    [][ReceiveAfterSend => Content(heap', got') = Content(heap, data)]_vars

\* C1 amended: after send(time, values) the Transformer's input_time and
\* input_buffer hold the data sent; a receive from the same Transformer returns
\* the elements of its output_time and output_buffer, which send does not
\* write; the list received equals the data sent exactly when the output
\* buffers hold what the input buffers hold.
C1_ReceiveYieldsOutputBuffers ==
    [][ReceiveAfterSend =>
          /\ InputContent(heap, tr) = Content(heap, data)
          /\ Content(heap', got') = OutputContent(heap, tr)
          /\ (Content(heap', got') = Content(heap, data))
                <=> (OutputContent(heap, tr) = InputContent(heap, tr))]_vars

\* A receive has returned, to a caller that sent it, data that was carried from
\* the input to the output buffers.
C1_Witness ==
    /\ transport = "memory"
    /\ last \in RecvOps
    /\ data # None
    /\ heap[data[1]] # <<>>
    /\ heap[data[2]] # <<>>
    /\ Content(heap, got) = Content(heap, data)
    /\ InputContent(heap, tr) = Content(heap, data)

-----------------------------------------------------------------------------
(* C2 *)

\* C2: data crossing an in-memory Communicator is copied, never aliased: a
\* write by the caller into an array it sent or received leaves all four
\* buffers of the Transformer unchanged, and a write on the Transformer's side
\* into one of its buffers leaves the caller's arrays unchanged, after any
\* sequence of sends, receives, transforms and writes.
C2_CopiedNeverAliased ==
    [][/\ last' = "mutate_caller" => TrContent(heap', tr') = TrContent(heap, tr)
       /\ last' = "mutate_transformer" =>
              CallerContent(heap', data', got') = CallerContent(heap, data, got)]_vars

\* The caller has written into an array while it holds a list it sent and a
\* list it received, and its sent data now differs from the Transformer's input.
C2_Witness ==
    /\ last = "mutate_caller"
    /\ data # None
    /\ got # <<>>
    /\ heap[got[2]] # <<>>
    /\ Content(heap, data) # InputContent(heap, tr)

-----------------------------------------------------------------------------
(* C5 *)

\* C5: each send overwrites the Transformer's input buffers: after a send the
\* target's input_time and input_buffer hold exactly the data of that send,
\* nothing of what they held before.
C5_InputOverwrittenBySend ==
    (transport = "memory" /\ last \in SendOps /\ err = "none")
        => InputContent(heap, tr) = Content(heap, data)

\* A send has replaced input buffers whose earlier content (carried to the
\* output by a transform) was different.
C5_Witness ==
    /\ transport = "memory"
    /\ last \in SendOps
    /\ err = "none"
    /\ heap[tr.output_time] # <<>>
    /\ heap[tr.input_time] # <<>>
    /\ heap[tr.output_time] # heap[tr.input_time]

-----------------------------------------------------------------------------
(* C3 *)

\* The (time, values) pair has matching shapes.
ValidPair(c) == Len(c) = 2 /\ Len(c[1]) = Len(c[2])

\* This step is a receive that directly follows the completion of a send of a
\* valid pair to a file, the reader's source being the writer's target.
ReceiveAfterWrite ==
    /\ transport = "file"
    /\ target = source
    /\ last = "np.savez"
    /\ wpc = 0
    /\ err = "none"
    /\ ValidPair(Content(heap, data))
    /\ last' \in RecvOps

\* C3 as stated: for every valid (time, values) pair and every path, a send
\* by NPZWriter with target = path followed by a receive by NPZReader with
\* source = the same path returns [time, values] equal to the data sent.
C3_FileRoundTripOnSamePath ==
    [][ReceiveAfterWrite =>
          (err' = "none" /\ Content(heap', got') = Content(heap, data))]_vars

-----------------------------------------------------------------------------
(* C4 *)

\* The elements of the two arrays the reader takes from a complete archive.
Loaded(f) == <<Member(f, ReaderKeys[1]), Member(f, ReaderKeys[2])>>

\* C4 as stated: a receive that runs while a writer is sending to the same
\* path never observes a partially written file: it fails only because no
\* file exists, or it returns the complete pair of a complete archive.
C4_ReaderNeverSeesPartialFile ==
    (transport = "file" /\ last \in RecvOps)
        => \/ (err # "none" /\ fs[source].st = "missing")
           \/ (err = "none" /\ Complete(fs[source])
                /\ Content(heap, got) = Loaded(fs[source]))

-----------------------------------------------------------------------------
(* C6 *)

\* C6: the invocation operator is the named method: a step sender(data) is a
\* step sender.send(data), for the data the caller passed, and returns nothing;
\* a step receiver() is a step receiver.receive() and returns what it returns,
\* a list [time, values].
C6_CallIsNamedMethod ==
    [][/\ last' = "Sender.__call__" =>
              (ret' = "None" /\ SenderSend(Content(heap', data')))
       /\ last' = "Receiver.__call__" =>
              (ReceiverReceive /\ (err' = "none" => (ret' = "list" /\ Len(got') = 2)))]_vars

\* The invocation operator of a receiver has returned a list with data in it.
C6_Witness ==
    /\ last = "Receiver.__call__"
    /\ err = "none"
    /\ ret = "list"
    /\ heap[got[1]] # <<>>
    /\ heap[got[2]] # <<>>

-----------------------------------------------------------------------------
(* C7 *)

\* A send has finished (in memory at once, to a file when np.savez has closed
\* the archive or has raised), and what the caller passed to it is None, or a
\* pair whose time and values have different lengths.
BadDataSent ==
    /\ \/ (transport = "memory" /\ last \in SendOps)
       \/ (transport = "file" /\ wpc = 0 /\ last \in SendOps \cup {"np.savez"})
    /\ (data = None \/ ~ValidPair(Content(heap, data)))

\* C7 as stated, with every raised error counted as the ShapeMismatch kind:
\* sending None or a pair of mismatched shapes through SetToTransformer or
\* NPZWriter fails, and the data is not stored.
C7_BadDataIsRejected == BadDataSent => err # "none"

-----------------------------------------------------------------------------
(* C8 *)

\* A receive has just run on a source that is missing or is no complete archive.
ReceiveOnBadSource ==
    /\ transport = "file"
    /\ last \in RecvOps
    /\ ~Complete(fs[source])

\* C8 as stated: a receive on a missing or corrupt source fails with an error
\* of the IOError kind and returns nothing.
C8_BadSourceRaisesIOError ==
    ReceiveOnBadSource => (IsIOError(err) /\ ret = "None")

\* C8 amended: a receive on a missing or corrupt source fails with an error
\* that reaches the caller and returns nothing; the error is of the IOError
\* kind when the source is missing, and need not be when the archive is corrupt.
C8_BadSourceRaises ==
    ReceiveOnBadSource =>
        /\ err # "none"
        /\ ret = "None"
        /\ (fs[source].st = "missing" => IsIOError(err))

\* A receive has failed on an archive that was left partly written, with an
\* error outside the IOError family.
C8_Witness ==
    /\ ReceiveOnBadSource
    /\ fs[source].st = "open"
    /\ fs[source].members # <<>>
    /\ wpc = 0
    /\ ~IsIOError(err)

-----------------------------------------------------------------------------
(* C9 *)

\* C9 as stated: when a send over the file transport fails, on None data or on
\* a write error part-way, the file that an earlier successful send wrote at
\* the target path is still a complete archive.
C9_FailedSendKeepsEarlierFile ==
    (/\ transport = "file"
     /\ written
     /\ wpc = 0
     /\ last \in SendOps \cup {"np.savez"}
     /\ err # "none")
        => Complete(fs[SavezName(target)])

-----------------------------------------------------------------------------
(* C10 *)

\* C10 as stated: every file NPZWriter has written is one compressed archive
\* holding exactly the arrays `time` and `values`.
C10_ArchiveIsCompressed ==
    \A p \in DOMAIN fs :
        Complete(fs[p]) => (fs[p].compressed /\ Names(fs[p]) = <<"time", "values">>)

\* C10 amended: every file NPZWriter has written is one uncompressed archive
\* holding exactly the arrays `time` and `values`, and NPZReader returns
\* exactly those two, `time` first.
C10_ArchiveHoldsTimeAndValues ==
    /\ \A p \in DOMAIN fs :
          /\ ~fs[p].compressed
          /\ Complete(fs[p]) => Names(fs[p]) = <<"time", "values">>
    /\ (transport = "file" /\ last \in RecvOps /\ err = "none") =>
          /\ Complete(fs[source])
          /\ Content(heap, got) = <<Member(fs[source], "time"), Member(fs[source], "values")>>

\* The reader has returned, from a complete archive, a pair with data in it.
C10_Witness ==
    /\ transport = "file"
    /\ last \in RecvOps
    /\ err = "none"
    /\ Complete(fs[source])
    /\ heap[got[1]] # <<>>
    /\ heap[got[2]] # <<>>

-----------------------------------------------------------------------------
(* Output devices: the read contract (C13-C18), under SpecDevices *)

ReadsOfData == {"events", "number_of_events", "n_events"}

\* C13: reading an output device never mutates its buffers: a step that is an
\* events, number_of_events or n_events read leaves what the monitors hold and
\* the device's _data as they were; only the backend's recording changes them.
C13_ReadsLeaveBuffersUnchanged ==
    [][last' \in ReadsOfData => (monitors' = monitors /\ devdata' = devdata)]_vars

\* C14: events read twice in a row, with no recording in between, returns the
\* same result both times, for every device class.
C14_EventsTwiceIdentical ==
    [][(last = "events" /\ last' = "events" /\ reads' > 1)
          => (err = "none" /\ err' = "none" /\ result' = result)]_vars

\* combine_by_coords over what every monitor holds, from an empty array.
RECURSIVE Aggregate(_, _, _)
Aggregate(m, ms, d) ==
    IF m > Len(ms) THEN d ELSE Aggregate(m + 1, ms, CombineByCoords(d, m, ms[m]))

\* C15: the result of an events read is a fresh aggregation of what the
\* recorders hold when it is made, whatever was read before.
C15_EventsIsFreshAggregation ==
    [][last' = "events"
          => (err' = "none"
              /\ result' = EventsOf(kind, Aggregate(1, monitors, EmptyDataArray)))]_vars

IsSender(s) == Len(s) = 2

\* C16: events returns, for every device class, a mapping with times and
\* senders of equal length, every sender a (population, neuron) pair, and the
\* recorded variable's values of the length of times.
C16_EventsMappingShape ==
    last = "events"
        => /\ err = "none"
           /\ result.tag = "events"
           /\ Len(result.senders) = Len(result.times)
           /\ \A i \in DOMAIN result.senders : IsSender(result.senders[i])
           /\ (kind # "spike_detector" => Len(result.values) = Len(result.times))

\* What events returns when read in a state (NoResult: it raises).
EventsIn(k, ms, d) ==
    IF Record(k, ms, d).err = "none" THEN EventsOf(k, Record(k, ms, d).data) ELSE NoResult

\* C17: number_of_events and n_events return the number of recorded events,
\* the length of events["times"] read in the same state, for every class.
C17_NumberOfEventsIsCount ==
    [][last' \in {"number_of_events", "n_events"}
          => /\ err' = "none"
             /\ result'.tag = "count"
             /\ EventsIn(kind, monitors, devdata).tag = "events"
             /\ result'.n = Len(EventsIn(kind, monitors, devdata).times)]_vars

\* The samples the device and its monitors hold, per monitor, oldest first.
Held(ms, d) ==
    [m \in DOMAIN ms |->
        LET mine == SelectSeq(d.cells, LAMBDA c : c.monitor = m)
        IN  [i \in DOMAIN mine |-> mine[i].value] \o ms[m]]

\* C18: recorded data goes only by an explicit reset: no events,
\* number_of_events, n_events, Get or connections read discards any of it,
\* and a count read right after a reset returns 0.
C18_OnlyResetDiscards ==
    [][/\ last' \in DeviceReads => Held(monitors', devdata') = Held(monitors, devdata)
       /\ (last = "reset" /\ last' \in {"number_of_events", "n_events"})
              => (err' = "none" /\ result'.n = 0)]_vars

-----------------------------------------------------------------------------
(* The per-step exchange and the building of the interface (C11, C12, C20),  *)
(* under SpecCosim                                                            *)

Alternating(seq) == \A i \in DOMAIN seq : seq[i] = IF i % 2 = 1 THEN "tvb" ELSE "spiking"

\* C11: the exchange is a strict ping-pong: at most one simulator is inside a
\* step at any time, the steps alternate between TVB and the spiking network
\* (neither is stepped twice in a row), and every tick holds one step of each:
\* the state AWAITING_TVB_STEP is left with the tick's TVB step made,
\* AWAITING_SPIKING_STEP with its spiking step made.
C11_StrictPingPong ==
    /\ Cardinality(running) <= 1
    /\ Alternating(stepped)
    /\ phase = "AWAITING_TVB_STEP" => Len(stepped) \in {2 * tick, 2 * tick + 1}
    /\ phase = "AWAITING_SPIKING_STEP" => Len(stepped) \in {2 * tick + 1, 2 * tick + 2}

\* TVB is inside its second step: a spiking step lies between its two steps.
C11_Witness ==
    /\ pc = "run"
    /\ running = {"tvb"}
    /\ tick = 1
    /\ stepped = <<"tvb", "spiking", "tvb">>

\* C12: the barrier: a step of the spiking network starts only when every
\* input endpoint has run its Transformer and sent, and a step of TVB after the
\* first starts only when every output endpoint has received, transformed and
\* written back.
C12_BarrierBeforeEachStep ==
    [][(running' # running /\ running' # {})
          => /\ "spiking" \in running'
                    => \A i \in Inputs(endpoints) : xchg[i] = "sent"
             /\ ("tvb" \in running' /\ stepped # <<>>)
                    => \A i \in Outputs(endpoints) : xchg[i] = "written"]_vars

\* Both barriers have been passed: the spiking network is inside its second
\* step, over an interface with endpoints in both directions.
C12_Witness ==
    /\ pc = "run"
    /\ running = {"spiking"}
    /\ tick = 1
    /\ Inputs(endpoints) # {}
    /\ Outputs(endpoints) # {}
    /\ \A i \in Inputs(endpoints) : xchg[i] = "sent"

\* The configuration names a population that the spiking network does not have.
HasUnknown(c, reg) ==
    \E i \in 1..2 : c.tvb_to_nest[i] \notin reg \/ c.nest_to_tvb[i] \notin reg

\* C20: with a population label that is not in the registry, the build raises
\* UnknownPopulation and the script ends there: no interface is built and
\* neither simulator is ever stepped.
C20_UnknownPopulationAbortsBuild ==
    HasUnknown(cfg, registry)
        => /\ pc \in {"build", "aborted"}
           /\ pc = "aborted" => (err = "UnknownPopulation" /\ endpoints = <<>>)
           /\ stepped = <<>>
           /\ running = {}
           /\ tick = 0

\* The build has raised on an unknown label.
C20_Witness ==
    /\ HasUnknown(cfg, registry)
    /\ last = "build_interface"
    /\ pc = "aborted"
    /\ err = "UnknownPopulation"

-----------------------------------------------------------------------------
(* The basal-ganglia builders for NEST (C21), under SpecBuilders *)

\* The generic builder that corresponds to a NEST builder: the class of the
\* same name with SpikeNet in the place of NEST.
Corresponding(cls) ==
    CASE cls = "NESTRemoteInterface" -> "SpikeNetRemoteInterface"
      [] cls = "NESTOutputTransformerInterface" -> "SpikeNetOutputTransformerInterface"
      [] cls = "NESTInputTransformerInterface" -> "SpikeNetInputTransformerInterface"
      [] cls = "NESTTransformerInterface" -> "SpikeNetTransformerInterface"
      [] cls = "TVBNESTInterface" -> "TVBSpikeNetInterface"
      [] cls = "NESTProxyNodes" -> "SpikeNetProxyNodes"
      [] cls = "NESTInterface" -> "SpikeNetInterface"

-----------------------------------------------------------------------------
(* ANNarchy devices: Get, Set, connections and registries (C22, C24, C25,     *)
(* C30), under SpecDeviceAttributes                                           *)

\* C22: an input device's Get returns the dictionary of the attributes asked
\* for, _GetFromConnections returns a dictionary too; neither returns None.
C22_InputGetReturnsDictionary ==
    /\ last = "ANNarchyInputDevice.Get" =>
          result = ReturnedDict(PopulationGet(attrs.values, attrs.names))
    /\ last = "ANNarchyInputDevice._GetFromConnections" => result.tag = "dict"

\* C24: Set(values_dict) on an output device succeeds and leaves every
\* monitor with each named attribute at its value, and a Get of the same names
\* right after it returns, per name, that value once per monitor, in order.
C24_SetThenGet ==
    [][/\ last' = "ANNarchyOutputDevice.Set" =>
            /\ err' = "none"
            /\ \A m \in 1..Len(attrs'.values) : \A a \in DOMAIN attrs'.values_dict :
                  attrs'.values[m][a] = attrs'.values_dict[a]
       /\ (/\ last = "ANNarchyOutputDevice.Set"
           /\ last' = "ANNarchyOutputDevice.Get"
           /\ attrs.values_dict # <<>>
           /\ attrs'.names = DOMAIN attrs.values_dict
           /\ Len(attrs.values) > 0) =>
            result' = ReturnedDict([a \in DOMAIN attrs.values_dict |->
                                       [m \in 1..Len(attrs.values) |-> attrs.values_dict[a]]])]_vars

\* C25: GetConnections() and the connections property return one
\* ANNarchyOutputDeviceConnection per monitor, in monitor order, from the
\* monitor's population to the monitor, with weight 1.0 and delay 0.0.
C25_OneConnectionPerMonitor ==
    last \in {"ANNarchyOutputDevice.GetConnections", "ANNarchyOutputDevice.connections"} =>
        /\ err = "none"
        /\ result = ReturnedList([m \in 1..Len(attrs.values) |->
                                     ANNarchyOutputDeviceConnection(<<"population", m>>,
                                                                    <<"monitor", m>>)])

\* C30: a device built from the class registered under a key, without a model
\* argument, reports that key as its model; and the spike registry holds the
\* classes the output registry holds under the same keys.
C30_ModelIsRegistryKey ==
    /\ attrs.model = attrs.key
    /\ \A k \in OutputSpikeDeviceKeys :
          ANNarchyOutputSpikeDeviceDict[k] = ANNarchyOutputDeviceDict[k]

-----------------------------------------------------------------------------
(* random_uniform_delay (C27), under SpecDelay *)

\* C27: a zero delay is returned as it is; otherwise the call raises
\* ValueError exactly when the maximum, after the adjustment by sigma, is not
\* larger than the minimum, and else draws from a range with min < max whose
\* bounds, for sigma > 0, are at least the given low and high and at least
\* (1 - sigma) * delay and (1 + sigma) * delay.
C27_DelayRange ==
    delay.out # NotCalled =>
        LET d == delay.delay
            s == delay.sigma.tenths
            spread == delay.sigma.given /\ s > 0
            lo == IF spread /\ (10 - s) * d > 10 * delay.low THEN ((10 - s) * d) \div 10
                  ELSE delay.low
            hi == IF spread /\ (10 + s) * d > 10 * delay.high THEN ((10 + s) * d) \div 10
                  ELSE delay.high
        IN  IF d = 0
            THEN delay.out.tag = "return" /\ delay.out.value = d /\ err = "none"
            ELSE /\ (delay.out.tag = "ValueError") <=> (hi <= lo)
                 /\ (err = "ValueError") <=> (hi <= lo)
                 /\ delay.out.tag # "ValueError" =>
                       /\ delay.out.tag = "uniform"
                       /\ delay.out.min < delay.out.max
                       /\ spread =>
                             /\ delay.out.min >= delay.low
                             /\ 10 * delay.out.min >= (10 - s) * d
                             /\ delay.out.max >= delay.high
                             /\ 10 * delay.out.max >= (10 + s) * d

C27_Witness ==
    /\ last = "random_uniform_delay"
    /\ delay.delay = 20 /\ delay.low = 0 /\ delay.high = 10
    /\ delay.sigma = [given |-> TRUE, tenths |-> 1]
    /\ delay.out = Uniform(18, 22)

-----------------------------------------------------------------------------
(* The SBI script's batches (C28, C29), under SpecSbi *)

\* C28: priors_samples_per_batch gives N batches; batch iB holds the samples
\* at indices iB, iB + N, iB + 2N, ... in that order, every sample is in
\* exactly one batch, and the sizes of two batches differ by at most one.
C28_BatchesPartitionSamples ==
    sbi.pc # "sample" =>
        /\ Len(sbi.batches) = sbi.N
        /\ \A b \in 1..sbi.N :
              /\ Len(sbi.batches[b]) = Cardinality({i \in 0..(sbi.n - 1) : i % sbi.N = b - 1})
              /\ \A j \in 1..Len(sbi.batches[b]) : sbi.batches[b][j] = (b - 1) + (j - 1) * sbi.N
        /\ \A i \in 0..(sbi.n - 1) :
              Cardinality({<<b, j>> \in (1..sbi.N) \X (1..sbi.n) :
                              j <= Len(sbi.batches[b]) /\ sbi.batches[b][j] = i}) = 1
        /\ \A b, c \in 1..sbi.N : Len(sbi.batches[b]) - Len(sbi.batches[c]) <= 1

C28_Witness ==
    /\ last = "priors_samples_per_batch"
    /\ sbi.n = 3 /\ sbi.N = 2
    /\ sbi.batches = <<(<<0, 2>>), (<<1>>)>>

\* C29: every pair of a prior sample and a simulation result that
\* sbi_infer_for_iG trains on holds the result of that very sample, also when
\* a batch's result file holds fewer results than the batch has samples.
C29_PairsAreAligned ==
    (last = "sbi_infer_for_iG" /\ err = "none") =>
        \A i \in 1..Len(sbi.pairs) : sbi.pairs[i][2] = SimRes(sbi.pairs[i][1])

-----------------------------------------------------------------------------
(* Loading posterior samples (C23), under SpecPosteriors *)

\* The G values whose samples load: all of them over runs (a failing run is
\* left out, the G is not), those with a file when runs is False.
LoadsG(p, g) == p.entry = "all_Gs_runs_False" => p.gfiles[g]

\* C23: a failing run or G is skipped without raising, and what
\* load_posterior_samples_all_runs / load_posterior_samples_all_Gs returns
\* holds the samples of every run / every G that loaded.
C23_PartialLoadKeepsLoaded ==
    /\ err = "none"
    /\ posteriors.pc = "returned" =>
          IF posteriors.entry = "all_runs"
          THEN \A r \in 1..MaxRuns :
                  posteriors.files[1][r] =>
                      \E j \in 1..Len(posteriors.samples) : posteriors.samples[j] = SamplesOf(1, r)
          ELSE \A g \in 1..MaxGs :
                  LoadsG(posteriors, g) =>
                      /\ g \in DOMAIN posteriors.samples
                      /\ posteriors.samples[g] = LoadForG(posteriors, g).value

-----------------------------------------------------------------------------
(* sbi_train (C26), under SpecTraining *)

\* C26: sbi_train calls build_posterior at most 10 times; it returns the
\* posterior of the first attempt that succeeds, without a further attempt;
\* when all 10 attempts raise it raises an exception carrying the last error;
\* it never returns None; and every "Trying again" warning is followed by
\* another attempt.
C26_BoundedRetry ==
    /\ training.attempts <= 10
    /\ training.out = "returned" =>
          /\ training.returned = <<"posterior", training.attempts>>
          /\ training.warnings = training.attempts - 1
    /\ training.out = "raised" =>
          /\ training.attempts = 10
          /\ training.warnings = 10
          /\ training.carried = training.exception
          /\ training.carried \in BuildErrors
    /\ (training.out # "running" /\ training.warnings > 0) =>
          training.attempts >= training.announced

=============================================================================
